---- MODULE Spec2Model ----
(***************************************************************************)
(* A model of the TL1 client of pylibtl1: the Session transport            *)
(* (src/tl1/session.py), the TL1 orchestrator (src/tl1/tl1.py) and the     *)
(* response classifier parse_response (src/tl1/base.py).                   *)
(*                                                                         *)
(* Text is a sequence of one-character strings, bytes likewise; the byte   *)
(* 0xFF is written IAC.  Python's None is NoHost / NoPort / NoSock for the *)
(* host, port and socket fields.                                           *)
(***************************************************************************)
EXTENDS Integers, Sequences, FiniteSets, TLC

(***************************************************************************)
(* Bounds of the model.                                                    *)
(***************************************************************************)
\* sockets socket.create_connection may hand out in one run
MaxSockets == 2
\* messages the far end sends on one connection
MaxPeerMsgs == 2
\* largest timeout a caller passes to Session.get_response directly
MaxTimeout == 1
\* how far the clock may run past the deadline of the call in flight
MaxOvershoot == 0
\* the longest text handed to Session.write in a single call
MaxWriteLen == 3
\* the longest of the short buffers handed to parse_response
MaxShortLen == 3
\* the most parameters in a parameter block rendered on its own
MaxParams == 2
\* the longest of the texts compared through String
MaxCompareLen == 2
\* the most data lines of a table body, and the most records it declares
MaxRows == 2
\* the most KEY=VALUE pairs of a flat body
MaxPairs == 2

(***************************************************************************)
(* Program constants.                                                      *)
(***************************************************************************)
\* get_response(self, timeout:int = 5)
DefaultTimeout == 5
\* connect(self, host, port, timeout:int = 5)
ConnectTimeout == 5
\* self.sock.recv(50)
RecvSize == 50
\* text[6:], the preamble parse_response strips
Preamble == 6

CR == "\r"
LF == "\n"
SP == " "
TAB == "\t"
IAC == "IAC"

NoHost == ""
NoPort == 0
NoSock == 0

(***************************************************************************)
(* Sequence helpers: Python slicing, str.split and str.join.               *)
(***************************************************************************)
Min(a, b) == IF a < b THEN a ELSE b

\* text[n:]
From(text, n) == SubSeq(text, Min(n, Len(text)) + 1, Len(text))

\* text[:n]
Upto(text, n) == SubSeq(text, 1, Min(n, Len(text)))

\* text[:-1]
DropLast(text) == SubSeq(text, 1, Len(text) - 1)

\* str.find(sep) + 1: the first position sep starts at, 0 when it does not occur
Find(text, sep) ==
    LET at == {i \in 1..(Len(text) - Len(sep) + 1) :
                  SubSeq(text, i, i + Len(sep) - 1) = sep}
    IN  IF at = {} THEN 0 ELSE CHOOSE i \in at : \A j \in at : i <= j

\* str.split(sep, maxsplit); maxsplit = -1 splits at every occurrence
RECURSIVE Split(_, _, _)
Split(text, sep, maxsplit) ==
    LET i == Find(text, sep)
    IN  IF maxsplit = 0 \/ i = 0
        THEN <<text>>
        ELSE <<SubSeq(text, 1, i - 1)>>
             \o Split(SubSeq(text, i + Len(sep), Len(text)), sep, maxsplit - 1)

\* sep.join(parts)
RECURSIVE Join(_, _)
Join(parts, sep) ==
    IF parts = <<>> THEN <<>>
    ELSE IF Len(parts) = 1 THEN parts[1]
    ELSE parts[1] \o sep \o Join(Tail(parts), sep)

(***************************************************************************)
(* The enumerations of src/tl1/constants.py, by their wire values.         *)
(***************************************************************************)
Terminator == {">", ";", "<"}
TerminatorACK == "<"

(***************************************************************************)
(* datetime.fromisoformat, for the forms YYYY-MM-DD and                    *)
(* YYYY-MM-DD?HH[:MM[:SS]] (? is any one character).                       *)
(***************************************************************************)
Digits == {"0", "1", "2", "3", "4", "5", "6", "7", "8", "9"}

DigitVal(c) ==
    CASE c = "0" -> 0 [] c = "1" -> 1 [] c = "2" -> 2 [] c = "3" -> 3
      [] c = "4" -> 4 [] c = "5" -> 5 [] c = "6" -> 6 [] c = "7" -> 7
      [] c = "8" -> 8 [] c = "9" -> 9

\* str(n) for n in 0..9
DigitText(n) == <<CHOOSE c \in Digits : DigitVal(c) = n>>

AllDigits(t) == \A i \in 1..Len(t) : t[i] \in Digits

RECURSIVE Number(_)
Number(t) == IF t = <<>> THEN 0 ELSE 10 * Number(DropLast(t)) + DigitVal(t[Len(t)])

IsLeap(y) == (y % 4 = 0 /\ y % 100 # 0) \/ y % 400 = 0

DaysIn(y, m) ==
    IF m = 2 THEN (IF IsLeap(y) THEN 29 ELSE 28)
    ELSE IF m \in {4, 6, 9, 11} THEN 30 ELSE 31

IsIsoDate(t) ==
    /\ Len(t) = 10
    /\ t[5] = "-" /\ t[8] = "-"
    /\ AllDigits(SubSeq(t, 1, 4)) /\ AllDigits(SubSeq(t, 6, 7)) /\ AllDigits(SubSeq(t, 9, 10))
    /\ LET y == Number(SubSeq(t, 1, 4))
           m == Number(SubSeq(t, 6, 7))
           d == Number(SubSeq(t, 9, 10))
       IN  y >= 1 /\ m \in 1..12 /\ d >= 1 /\ d <= DaysIn(y, m)

IsIsoTime(t) ==
    /\ Len(t) \in {2, 5, 8}
    /\ AllDigits(SubSeq(t, 1, 2)) /\ Number(SubSeq(t, 1, 2)) < 24
    /\ Len(t) >= 5 => /\ t[3] = ":"
                      /\ AllDigits(SubSeq(t, 4, 5))
                      /\ Number(SubSeq(t, 4, 5)) < 60
    /\ Len(t) = 8 => /\ t[6] = ":"
                     /\ AllDigits(SubSeq(t, 7, 8))
                     /\ Number(SubSeq(t, 7, 8)) < 60

\* whether Datetime.fromisoformat(t) returns rather than raising ValueError
fromisoformat_ok(t) ==
    \/ IsIsoDate(t)
    \/ /\ Len(t) > 11
       /\ IsIsoDate(SubSeq(t, 1, 10))
       /\ IsIsoTime(SubSeq(t, 12, Len(t)))

(***************************************************************************)
(* parse_response with the default vendor profile (VendorTL1Default): the  *)
(* value the call returns, or the exception it raises.                     *)
(***************************************************************************)
NoneValue == [kind |-> "None"]
BoolValue(b) == [kind |-> "bool", val |-> b]
Text(t) == [kind |-> "str", text |-> t]
RaiseMsg(e, msg) == [kind |-> "raise", error |-> e, msg |-> msg]
Raise(e) == RaiseMsg(e, "")

\* a response constructor that takes the ctag from the token after 'M'
Response_second(sid, dt, identifier, text, terminator) ==
    [kind |-> "Response", source_id |-> sid, datetime |-> dt,
     type |-> identifier[1], ctag |-> identifier[2], status |-> identifier[4],
     text |-> text, terminator |-> terminator]

\* a vendor profile whose autonomous constructor builds a Response
AutonomousMessage_asResponse(sid, dt, identifier, text, terminator) ==
    [kind |-> "Response", source_id |-> sid, datetime |-> dt,
     type |-> identifier[1], ctag |-> identifier[2], status |-> identifier[3],
     text |-> text, terminator |-> terminator]

AcknowledgmentMessage(code, ctag, terminator) ==
    [kind |-> "AcknowledgmentMessage", code |-> code, ctag |-> ctag,
     terminator |-> terminator]

Response(sid, dt, identifier, text, terminator) ==
    [kind |-> "Response", source_id |-> sid, datetime |-> dt,
     type |-> identifier[1], ctag |-> identifier[3], status |-> identifier[4],
     text |-> text, terminator |-> terminator]

AutonomousMessage(sid, dt, identifier, text, terminator) ==
    [kind |-> "AutonomousMessage", source_id |-> sid, datetime |-> dt,
     code |-> identifier[1], atag |-> identifier[2],
     clause |-> Split(identifier[3], <<SP>>, -1),
     text |-> text, terminator |-> terminator]

\* an acknowledgment branch that leaves the terminator on the ctag
parse_ack_keep(text) ==
    LET parts == Split(From(text, Preamble), <<SP>>, 1)
    IN  IF Len(parts) # 2 THEN Raise("ValueError")
        ELSE AcknowledgmentMessage(parts[1], parts[2], text[Len(text)])

\* lines 495-499: the acknowledgment branch
parse_ack(text) ==
    LET parts == Split(From(text, Preamble), <<SP>>, 1)
    IN  IF Len(parts) # 2 THEN Raise("ValueError")
        ELSE AcknowledgmentMessage(parts[1], DropLast(parts[2]), text[Len(text)])

\* lines 503-522: header line, identifier line, body, terminator
parse_message(text) ==
    LET parts == Split(From(text, Preamble), <<CR, LF>>, 2)
    IN  IF Len(parts) # 3 THEN Raise("ValueError")
        ELSE
        LET header == Split(parts[1], <<SP>>, 1)
            idtxt  == parts[2]
            body   == parts[3]
        IN  IF Len(header) # 2 THEN Raise("ValueError")
            ELSE IF ~fromisoformat_ok(header[2]) THEN Raise("ValueError")
            ELSE IF idtxt = <<>> THEN Raise("IndexError")
            ELSE
            LET isM   == idtxt[1] = "M"
                ident == IF isM THEN Split(idtxt, <<SP>>, -1) ELSE Split(idtxt, <<SP>>, 2)
            IN  IF Len(ident) # (IF isM THEN 4 ELSE 3) THEN Raise("ValueError")
                ELSE IF body = <<>> THEN Raise("IndexError")
                ELSE IF body[Len(body)] \notin Terminator THEN Raise("ValueError")
                ELSE IF isM
                THEN Response(header[1], header[2], ident, DropLast(body), body[Len(body)])
                ELSE AutonomousMessage(header[1], header[2], ident, DropLast(body),
                                       body[Len(body)])

\* a parser that rejects what does not start a TL1 message
parse_response_strict(text) ==
    IF Upto(text, 3) # <<CR, LF, LF>> THEN Raise("ValueError")
    ELSE IF text[Len(text)] = TerminatorACK THEN parse_ack(text)
    ELSE parse_message(text)

parse_response(text) ==
    IF Upto(text, 3) # <<CR, LF, LF>> THEN NoneValue
    ELSE IF text[Len(text)] = TerminatorACK THEN parse_ack(text)
    ELSE parse_message(text)

(***************************************************************************)
(* Commands: Command.__str__ of a base Command(verb) whose staging.ctag    *)
(* has been assigned.  mod1, mod2, tid, aid, gblock keep their defaults.   *)
(***************************************************************************)
\* SlotsValues.parsed: the non-empty slots joined by __sep__
RECURSIVE NonEmpty(_)
NonEmpty(parts) ==
    IF parts = <<>> THEN <<>>
    ELSE (IF parts[1] = <<>> THEN <<>> ELSE <<parts[1]>>) \o NonEmpty(Tail(parts))

CommandCode_str(code) == Join(NonEmpty(<<code.verb, code.mod1, code.mod2>>), <<"-">>)

StagingBlock_str(st) == st.tid \o <<":">> \o st.aid \o <<":">> \o st.ctag \o <<":">> \o st.gblock

Command_str(cmd) ==
    CommandCode_str(cmd.command) \o <<":">> \o StagingBlock_str(cmd.staging)
        \o <<":">> \o cmd.payload \o <<";">>

Ctags == {<<"1">>, <<"2">>}

Command(verb, ctag) ==
    [isCommand |-> TRUE,
     command |-> [verb |-> verb, mod1 |-> <<>>, mod2 |-> <<>>],
     staging |-> [tid |-> <<>>, aid |-> <<>>, ctag |-> ctag, gblock |-> <<>>],
     payload |-> <<>>]

\* an argument of execute that is no Command (the default, None)
NotACommand == [isCommand |-> FALSE]

Commands == {Command(<<"R", "T", "R", "V">>, c) : c \in Ctags}

(***************************************************************************)
(* What the far end may put on the wire.                                   *)
(***************************************************************************)
Pad == <<CR, LF, LF, SP, SP, SP>>
HeaderLine == <<"S", SP, "2", "0", "2", "4", "-", "0", "2", "-", "2", "9",
                SP, "1", "0", ":", "0", "0", ":", "5", "9">>
BodyText == <<SP, SP, SP, "E", "N", "=", "0">>

AckWire(ctag) == Pad \o <<"O", "K", SP>> \o ctag \o <<"<">>

ResponseWire(ctag) ==
    Pad \o HeaderLine \o <<CR, LF>>
        \o <<"M", SP, SP>> \o ctag \o <<SP, "C", "O", "M", "P", "L", "D">> \o <<CR, LF>>
        \o BodyText \o <<";">>

AutonomousWire ==
    Pad \o HeaderLine \o <<CR, LF>>
        \o <<"*", "C", SP, "7", SP, "R", "E", "P", "T", SP, "A", "L", "M">> \o <<CR, LF>>
        \o BodyText \o <<";">>

\* a Telnet option negotiation: IAC DO <option>, bytes above 127
TelnetNegotiation == <<IAC, "DO", "ECHO">>

NonAscii == {IAC, "DO", "ECHO"}

PeerMessages ==
    {ResponseWire(c) : c \in Ctags}
        \cup {AckWire(<<"1">>), AutonomousWire, TelnetNegotiation}

\* bytes.decode('ascii') / str.encode('ascii'): the text itself, or the codec error
IsAscii(t) == \A i \in 1..Len(t) : t[i] \notin NonAscii

(***************************************************************************)
(* The state.                                                              *)
(*   owner      which object the application constructed: a TL1 client     *)
(*              ("tl1") or a bare Session ("session")                      *)
(*   session    the Session object's fields                                *)
(*   tl1        the TL1 object's fields (session: whether self.session is  *)
(*              a Session rather than None)                                *)
(*   nsock      sockets created so far; socket k is the k-th created       *)
(*   closes     per socket, the number of sock.close() calls              *)
(*   rx         bytes queued for reading on the live connection            *)
(*   peerClosed the far end has closed the live connection (EOF)           *)
(*   replies    the messages the far end has sent on the live connection   *)
(*   sent       the bytes last handed to sock.sendall                      *)
(*   call       the get_response call in flight, with its locals, and what *)
(*              it met: sawData (a poll found the socket readable), onTime *)
(*              (that poll came before expiry), closedAt (where the call   *)
(*              stood when another thread cleared self.sock)               *)
(*   closer     a second thread executing Session.close                    *)
(*   clock      time.time(), counted from the start of the call in flight  *)
(*   last       the latest operation, once it has completed: what it       *)
(*              returned or raised, what it met and what it did            *)
(*   queued     for a client whose first execute began with two replies    *)
(*              queued: the values its executes returned since             *)
(*   arg        for a single call of a function of the library (CallSpec): *)
(*              the function and the argument it is called with            *)
(***************************************************************************)
VARIABLES owner, session, tl1, nsock, closes, rx, peerClosed, replies, sent,
          call, closer, clock, last, queued, arg, obj

vars == <<owner, session, tl1, nsock, closes, rx, peerClosed, replies, sent,
          call, closer, clock, last, queued, arg, obj>>

Hosts == {"10.0.0.1"}
Ports == {3337}
\* create_connection: a socket, or an OSError of one of these classes
ConnectOutcomes == {"ok", "ConnectionRefusedError", "TimeoutError"}
\* the builtin subclasses of ConnectionError
ConnectionErrors ==
    {"ConnectionError", "ConnectionRefusedError", "ConnectionResetError",
     "ConnectionAbortedError", "BrokenPipeError"}

IdleCall ==
    [pc |-> "idle", caller |-> "", timeout |-> 0, start |-> 0, end |-> 0,
     buf |-> <<>>, ctag |-> <<>>, sock |-> NoSock, active |-> FALSE,
     sawData |-> FALSE, onTime |-> FALSE, wrote |-> 0, closedAt |-> ""]

IdleCloser == [pc |-> "idle", sock |-> NoSock]

\* a completed operation: what it returned or raised, and what it met and did
Entry(op, value) ==
    [op |-> op, value |-> value, sock |-> session.sock, active |-> FALSE,
     ctag |-> <<>>, wrote |-> 0, args |-> <<>>, dial |-> <<>>, timeout |-> 0,
     elapsed |-> 0, sawData |-> FALSE, onTime |-> FALSE, closedAt |-> ""]

\* before anything has completed
NoEntry ==
    [op |-> "", value |-> NoneValue, sock |-> NoSock, active |-> FALSE,
     ctag |-> <<>>, wrote |-> 0, args |-> <<>>, dial |-> <<>>, timeout |-> 0,
     elapsed |-> 0, sawData |-> FALSE, onTime |-> FALSE, closedAt |-> ""]

NoQueue == [on |-> FALSE, values |-> <<>>]

\* no single function call is under study
NoArg == [fn |-> ""]

\* no object of the value types or of the command classes under study
NoObj == [class |-> ""]

Quiet == call.pc = "idle" /\ closer.pc = "idle"

(***************************************************************************)
(* Session (src/tl1/session.py).                                           *)
(***************************************************************************)
\* Session.connect, lines 82-99; outcome is what create_connection does,
\* fresh the socket it returns
connect(s, host, port, timeout, outcome, fresh) ==
    LET s1 == [s EXCEPT !.host = IF host # NoHost THEN host ELSE s.host,
                        !.port = IF port # NoPort THEN port ELSE s.port,
                        !.timeout = IF timeout # 0 THEN timeout ELSE s.timeout]
    IN  IF ~(host # NoHost /\ port # NoPort)
        THEN [session |-> s1, dial |-> <<>>,
              value |-> RaiseMsg("ConnectionError", "No host ip and port were set")]
        ELSE IF s1.sock # NoSock
        THEN [session |-> s1, dial |-> <<>>,
              value |-> RaiseMsg("ConnectionError",
                                 "Close the current session before starting a new one")]
        ELSE IF outcome # "ok"
        THEN [session |-> s1, dial |-> <<s1.host, s1.port>>, value |-> Raise(outcome)]
        ELSE [session |-> [s1 EXCEPT !.sock = fresh], dial |-> <<s1.host, s1.port>>,
              value |-> BoolValue(TRUE)]

\* Session.__init__, lines 49-56, for a construction that returns
NewSession(host, port, timeout) ==
    LET s0 == [sock |-> NoSock, host |-> host, port |-> port, timeout |-> timeout,
               eof |-> FALSE]
    IN  IF host # NoHost /\ port # NoPort
        THEN connect(s0, host, port, timeout, "ok", 1).session
        ELSE s0

\* a close that shuts the socket and leaves it in self.sock
Session_close_keep(s) ==
    [session |-> [s EXCEPT !.eof = TRUE], shut |-> s.sock]

\* Session.close, lines 178-182: the session afterwards and the socket closed
Session_close(s) ==
    [session |-> [s EXCEPT !.sock = NoSock, !.eof = TRUE], shut |-> s.sock]

\* the effect of sock.close() on socket k (none for k = NoSock, "if sock:")
Shut(k) ==
    IF k = NoSock
    THEN UNCHANGED <<closes, rx, peerClosed>>
    ELSE /\ closes' = [closes EXCEPT ![k] = @ + 1]
         /\ rx' = <<>>
         /\ peerClosed' = FALSE

\* parsed.replace(IAC, IAC+IAC)
RECURSIVE EscapeIAC(_)
EscapeIAC(b) ==
    IF b = <<>> THEN <<>>
    ELSE (IF b[1] = IAC THEN <<IAC, IAC>> ELSE <<b[1]>>) \o EscapeIAC(Tail(b))

\* a write that hands the text to the socket without encoding it
write_raw(s, buffer, broken) ==
    IF s.sock = NoSock THEN [value |-> Raise("AttributeError"), bytes |-> <<>>]
    ELSE IF closes[s.sock] > 0 THEN [value |-> Raise("OSError"), bytes |-> <<>>]
    ELSE IF broken THEN [value |-> Raise("BrokenPipeError"), bytes |-> <<>>]
    ELSE [value |-> NoneValue, bytes |-> EscapeIAC(buffer)]

\* Session.write, lines 118-121: the bytes handed to sendall, or the error;
\* broken: the kernel refuses the send (the far end is gone)
write(s, buffer, broken) ==
    IF ~IsAscii(buffer) THEN [value |-> Raise("UnicodeEncodeError"), bytes |-> <<>>]
    ELSE IF s.sock = NoSock THEN [value |-> Raise("AttributeError"), bytes |-> <<>>]
    ELSE IF closes[s.sock] > 0 THEN [value |-> Raise("OSError"), bytes |-> <<>>]
    ELSE IF broken THEN [value |-> Raise("BrokenPipeError"), bytes |-> <<>>]
    ELSE [value |-> NoneValue, bytes |-> EscapeIAC(buffer)]

\* a sock_avail that reports "nothing to read" for a missing or closed socket
sock_avail_lenient(s) ==
    IF s.sock = NoSock THEN "empty"
    ELSE IF closes[s.sock] > 0 THEN "empty"
    ELSE IF rx # <<>> \/ peerClosed THEN "readable"
    ELSE "empty"

\* Session.sock_avail, lines 170-172
sock_avail(s) ==
    IF s.sock = NoSock THEN "ValueError"
    ELSE IF closes[s.sock] > 0 THEN "ValueError"
    ELSE IF rx # <<>> \/ peerClosed THEN "readable"
    ELSE "empty"

\* a loop that gives up one tick before the timeout
Expired_early(c) == ~((c.end - c.start) < c.timeout - 1)

\* get_response, line 154: the negation of the loop condition
Expired(c) == ~((c.end - c.start) < c.timeout)

(***************************************************************************)
(* TL1 (src/tl1/tl1.py).                                                   *)
(***************************************************************************)
\* TL1.__init__, lines 13-18
NewTL1(s) == [connected |-> s.sock # NoSock, session |-> TRUE]

\* the client has a session object that holds a socket
Active(t, s) == t.session /\ s.sock # NoSock

\* TL1.close, lines 54-59
TL1_close(t, s) ==
    IF t.connected
    THEN IF ~t.session
         THEN [tl1 |-> t, session |-> s, shut |-> NoSock,
               value |-> Raise("AttributeError")]
         ELSE LET r == Session_close(s)
              IN  [tl1 |-> [t EXCEPT !.session = FALSE], session |-> r.session,
                   shut |-> r.shut, value |-> BoolValue(TRUE)]
    ELSE [tl1 |-> t, session |-> s, shut |-> NoSock, value |-> BoolValue(FALSE)]

\* an execute that sends the command a second time
execute_write_twice(t, s, cmd, broken) ==
    IF ~t.connected
    THEN [done |-> TRUE, bytes |-> <<>>,
          value |-> RaiseMsg("ConnectionError", "Session is not connected")]
    ELSE IF ~cmd.isCommand
    THEN [done |-> TRUE, bytes |-> <<>>, value |-> NoneValue]
    ELSE IF ~t.session
    THEN [done |-> TRUE, bytes |-> <<>>, value |-> Raise("AttributeError")]
    ELSE LET w == write(s, Command_str(cmd), broken)
         IN  [done |-> w.value.kind = "raise", bytes |-> w.bytes \o w.bytes,
              value |-> w.value]

\* TL1.execute, lines 37-43: up to the blocking read.  done: the call is over
\* with value; otherwise bytes went to the socket and get_response begins
execute_write(t, s, cmd, broken) ==
    IF ~t.connected
    THEN [done |-> TRUE, bytes |-> <<>>,
          value |-> RaiseMsg("ConnectionError", "Session is not connected")]
    ELSE IF ~cmd.isCommand
    THEN [done |-> TRUE, bytes |-> <<>>, value |-> NoneValue]
    ELSE IF ~t.session
    THEN [done |-> TRUE, bytes |-> <<>>, value |-> Raise("AttributeError")]
    ELSE LET w == write(s, Command_str(cmd), broken)
         IN  [done |-> w.value.kind = "raise", bytes |-> w.bytes, value |-> w.value]

(***************************************************************************)
(* Construction.                                                           *)
(***************************************************************************)
\* TL1(host, port, vendor, timeout) and Session(host, port, timeout): the
\* default and a shorter one
CtorTimeouts == {1, DefaultTimeout}

Init ==
    /\ owner \in {"tl1", "session"}
    /\ \E host \in Hosts \cup {NoHost}, port \in Ports \cup {NoPort},
          timeout \in CtorTimeouts :
          session = NewSession(host, port, timeout)
    /\ tl1 = IF owner = "tl1" THEN NewTL1(session)
             ELSE [connected |-> FALSE, session |-> FALSE]
    /\ nsock = IF session.sock = NoSock THEN 0 ELSE 1
    /\ closes = [k \in 1..MaxSockets |-> 0]
    /\ rx = <<>>
    /\ peerClosed = FALSE
    /\ replies = <<>>
    /\ sent = <<>>
    /\ call = IdleCall
    /\ closer = IdleCloser
    /\ clock = 0
    /\ last = NoEntry
    /\ queued = NoQueue
    /\ arg = NoArg
    /\ obj = NoObj

(***************************************************************************)
(* Operations on a bare Session.                                           *)
(***************************************************************************)
Connect(host, port, outcome) ==
    /\ owner = "session" /\ Quiet
    /\ outcome = "ok" => nsock < MaxSockets
    /\ LET r == connect(session, host, port, ConnectTimeout, outcome, nsock + 1)
       IN  /\ session' = r.session
           /\ IF r.session.sock # session.sock
              THEN /\ nsock' = nsock + 1
                   /\ rx' = <<>>
                   /\ peerClosed' = FALSE
                   /\ replies' = <<>>
              ELSE UNCHANGED <<nsock, rx, peerClosed, replies>>
           /\ last' = [Entry("Session.connect", r.value) EXCEPT
                          !.args = <<host, port>>, !.dial = r.dial]
    /\ UNCHANGED <<obj, arg, owner, tl1, closes, sent, call, closer, clock, queued>>

SessionClose ==
    /\ owner = "session" /\ Quiet
    /\ LET r == Session_close(session)
       IN  /\ session' = r.session
           /\ Shut(r.shut)
    /\ last' = Entry("Session.close", NoneValue)
    /\ UNCHANGED <<obj, arg, owner, tl1, nsock, replies, sent, call, closer, clock, queued>>

\* Session.__exit__, line 208: the same for a normal exit and for an exception
SessionExit ==
    /\ owner = "session" /\ Quiet
    /\ LET r == Session_close(session)
       IN  /\ session' = r.session
           /\ Shut(r.shut)
    /\ last' = Entry("Session.__exit__", NoneValue)
    /\ UNCHANGED <<obj, arg, owner, tl1, nsock, replies, sent, call, closer, clock, queued>>

\* Session.get_response, lines 151-152: the call begins
GetResponse(timeout) ==
    /\ owner = "session" /\ Quiet
    /\ call' = [IdleCall EXCEPT !.pc = "poll", !.caller = "get_response",
                                !.timeout = timeout, !.start = clock, !.end = clock,
                                !.sock = session.sock]
    /\ last' = NoEntry
    /\ UNCHANGED <<obj, arg, owner, session, tl1, nsock, closes, rx, peerClosed, replies, sent,
                   closer, clock, queued>>

(***************************************************************************)
(* Operations on a TL1 client.                                             *)
(***************************************************************************)
Execute(cmd) ==
    /\ owner = "tl1" /\ Quiet
    /\ \E broken \in (IF peerClosed THEN BOOLEAN ELSE {FALSE}) :
          LET r == execute_write(tl1, session, cmd, broken)
              ctag == IF cmd.isCommand THEN cmd.staging.ctag ELSE <<>>
          IN  IF r.done
              THEN /\ last' = [Entry("TL1.execute", r.value) EXCEPT
                                   !.active = Active(tl1, session), !.ctag = ctag]
                   /\ UNCHANGED <<sent, call, queued>>
              ELSE /\ sent' = r.bytes
                   /\ call' = [IdleCall EXCEPT !.pc = "poll", !.caller = "execute",
                                               !.timeout = DefaultTimeout,
                                               !.start = clock, !.end = clock,
                                               !.sock = session.sock,
                                               !.active = Active(tl1, session),
                                               !.ctag = ctag, !.wrote = 1]
                   /\ queued' = IF ~queued.on /\ Len(replies) = 2
                                     /\ rx = replies[1] \o replies[2]
                                  THEN [on |-> TRUE, values |-> <<>>]
                                  ELSE queued
                   /\ last' = NoEntry
    /\ UNCHANGED <<obj, arg, owner, session, tl1, nsock, closes, rx, peerClosed, replies,
                   closer, clock>>

TL1Close ==
    /\ owner = "tl1" /\ Quiet
    /\ LET r == TL1_close(tl1, session)
       IN  /\ tl1' = r.tl1
           /\ session' = r.session
           /\ Shut(r.shut)
           /\ last' = [Entry("TL1.close", r.value) EXCEPT
                          !.active = Active(tl1, session)]
    /\ UNCHANGED <<obj, arg, owner, nsock, replies, sent, call, closer, clock, queued>>

\* TL1.__exit__, line 65
TL1Exit ==
    /\ owner = "tl1" /\ Quiet
    /\ LET r == TL1_close(tl1, session)
       IN  /\ tl1' = r.tl1
           /\ session' = r.session
           /\ Shut(r.shut)
           /\ last' = [Entry("TL1.__exit__",
                             IF r.value.kind = "raise" THEN r.value ELSE NoneValue)
                          EXCEPT !.active = Active(tl1, session)]
    /\ UNCHANGED <<obj, arg, owner, nsock, replies, sent, call, closer, clock, queued>>

(***************************************************************************)
(* The read in flight: get_response's poll loop and get_content's drain    *)
(* loop, one socket operation per step.                                    *)
(***************************************************************************)
\* the call returns or raises: value goes to the caller
FinishCall(value) ==
    /\ last' = [Entry(IF call.caller = "execute" THEN "TL1.execute"
                                                  ELSE "Session.get_response",
                       value)
                    EXCEPT !.sock = call.sock, !.active = call.active,
                           !.ctag = call.ctag, !.wrote = call.wrote,
                           !.timeout = call.timeout,
                           !.elapsed = call.end - call.start,
                           !.sawData = call.sawData, !.onTime = call.onTime,
                           !.closedAt = call.closedAt]
    /\ queued' = IF call.caller = "execute" /\ queued.on /\ Len(queued.values) < 2
                  THEN [queued EXCEPT !.values = Append(@, value)]
                  ELSE queued
    /\ call' = IdleCall
    /\ clock' = 0

\* get_response, lines 154-161: one turn of the poll loop
Poll ==
    /\ call.pc = "poll"
    /\ IF Expired(call)
       THEN FinishCall(RaiseMsg("EOFError", "Didnt found any response"))
       ELSE LET a == sock_avail(session)
            IN  CASE a = "ValueError" -> FinishCall(Raise("ValueError"))
                  [] a = "readable" ->
                        \* start, end and the clock are read no more: they are
                        \* dropped, and whether the poll came before expiry is kept
                        /\ call' = [call EXCEPT !.pc = "drain", !.buf = <<>>,
                                                !.sawData = TRUE,
                                                !.onTime = call.end - call.start
                                                              < call.timeout,
                                                !.start = 0, !.end = 0]
                        /\ clock' = 0
                        /\ UNCHANGED <<last, queued>>
                  [] a = "empty" ->
                        /\ call' = [call EXCEPT !.end = clock]
                        /\ UNCHANGED <<clock, last, queued>>
    /\ UNCHANGED <<obj, arg, owner, session, tl1, nsock, closes, rx, peerClosed, replies, sent,
                   closer>>

\* get_content, line 133: the loop test
Drain ==
    /\ call.pc = "drain"
    /\ LET a == sock_avail(session)
       IN  CASE a = "ValueError" -> FinishCall(Raise("ValueError"))
             [] a = "readable" -> /\ call' = [call EXCEPT !.pc = "recv"]
                                  /\ UNCHANGED <<clock, last, queued>>
             [] a = "empty"    -> /\ call' = [call EXCEPT !.pc = "decode"]
                                  /\ UNCHANGED <<clock, last, queued>>
    /\ UNCHANGED <<obj, arg, owner, session, tl1, nsock, closes, rx, peerClosed, replies, sent,
                   closer>>

\* get_content, line 134: buf = buf + self.sock.recv(50)
Recv ==
    /\ call.pc = "recv"
    /\ IF session.sock = NoSock
       THEN FinishCall(Raise("AttributeError")) /\ UNCHANGED rx
       ELSE IF closes[session.sock] > 0
       THEN FinishCall(Raise("OSError")) /\ UNCHANGED rx
       ELSE /\ call' = [call EXCEPT !.pc = "drain", !.buf = @ \o Upto(rx, RecvSize)]
            /\ rx' = From(rx, RecvSize)
            /\ UNCHANGED <<clock, last, queued>>
    /\ UNCHANGED <<obj, arg, owner, session, tl1, nsock, closes, peerClosed, replies, sent, closer>>

\* get_content, line 136, and for execute parse_response, tl1.py line 45
Decode ==
    /\ call.pc = "decode"
    /\ FinishCall(IF ~IsAscii(call.buf) THEN Raise("UnicodeDecodeError")
                  ELSE IF call.caller = "execute" THEN parse_response(call.buf)
                  ELSE Text(call.buf))
    /\ UNCHANGED <<obj, arg, owner, session, tl1, nsock, closes, rx, peerClosed, replies, sent,
                   closer>>

Reader == Poll \/ Drain \/ Recv \/ Decode

(***************************************************************************)
(* The environment: the far end and the clock.                             *)
(***************************************************************************)
Live == nsock > 0 /\ closes[nsock] = 0

PeerSend(m) ==
    /\ Live /\ ~peerClosed
    /\ Len(replies) < MaxPeerMsgs
    /\ rx' = rx \o m
    /\ replies' = Append(replies, m)
    /\ UNCHANGED <<obj, arg, owner, session, tl1, nsock, closes, peerClosed, sent, call, closer,
                   clock, last, queued>>

PeerClose ==
    /\ Live /\ ~peerClosed
    /\ peerClosed' = TRUE
    /\ UNCHANGED <<obj, arg, owner, session, tl1, nsock, closes, rx, replies, sent, call, closer,
                   clock, last, queued>>

\* time passes while a call polls (the clock is read nowhere else)
Tick ==
    /\ call.pc = "poll"
    /\ clock - call.start < call.timeout + MaxOvershoot
    /\ clock' = clock + 1
    /\ UNCHANGED <<obj, arg, owner, session, tl1, nsock, closes, rx, peerClosed, replies, sent,
                   call, closer, last, queued>>

(***************************************************************************)
(* A second thread closing the session while a read is in flight:          *)
(* Session.close, one statement per step.                                  *)
(***************************************************************************)
\* lines 178-179: sock = self.sock; self.sock = None
CloserClear ==
    /\ owner = "session"
    /\ call.pc # "idle" /\ closer.pc = "idle"
    /\ closer' = [pc |-> "cleared", sock |-> session.sock]
    /\ session' = [session EXCEPT !.sock = Session_close(session).session.sock]
    /\ call' = [call EXCEPT !.closedAt = call.pc]
    /\ UNCHANGED <<obj, arg, owner, tl1, nsock, closes, rx, peerClosed, replies, sent, clock, last, queued>>

\* line 180: self.eof = True
CloserEof ==
    /\ closer.pc = "cleared"
    /\ closer' = [closer EXCEPT !.pc = "eofset"]
    /\ session' = [session EXCEPT !.eof = Session_close(session).session.eof]
    /\ UNCHANGED <<obj, arg, owner, tl1, nsock, closes, rx, peerClosed, replies, sent, call,
                   clock, last, queued>>

\* lines 181-182: if sock: sock.close()
CloserShut ==
    /\ closer.pc = "eofset"
    /\ Shut(closer.sock)
    /\ closer' = IdleCloser
    /\ UNCHANGED <<obj, arg, owner, session, tl1, nsock, replies, sent, call, clock, last, queued>>

Closer == CloserClear \/ CloserEof \/ CloserShut

(***************************************************************************)
(* Specifications.                                                         *)
(***************************************************************************)
Timeouts == 0..MaxTimeout

Next ==
    \/ \E host \in Hosts \cup {NoHost}, port \in Ports \cup {NoPort},
          outcome \in ConnectOutcomes : Connect(host, port, outcome)
    \/ SessionClose
    \/ SessionExit
    \/ \E timeout \in Timeouts : GetResponse(timeout)
    \/ \E cmd \in Commands \cup {NotACommand} : Execute(cmd)
    \/ TL1Close
    \/ TL1Exit
    \/ Poll
    \/ Drain
    \/ Recv
    \/ Decode
    \/ \E m \in PeerMessages : PeerSend(m)
    \/ PeerClose
    \/ Tick

\* one thread of control
Spec == Init /\ [][Next]_vars

\* an application that drives a bare Session
SessionInit == Init /\ owner = "session"

SessionNext ==
    \/ \E host \in Hosts \cup {NoHost}, port \in Ports \cup {NoPort},
          outcome \in ConnectOutcomes : Connect(host, port, outcome)
    \/ SessionClose
    \/ SessionExit
    \/ \E timeout \in Timeouts : GetResponse(timeout)
    \/ Poll
    \/ Drain
    \/ Recv
    \/ Decode
    \/ \E m \in PeerMessages : PeerSend(m)
    \/ PeerClose
    \/ Tick

\* the same, where the thread in get_response keeps running and time keeps
\* passing
FairSpec == SessionInit /\ [][SessionNext]_vars /\ WF_vars(Reader) /\ WF_vars(Tick)

\* a second thread may close the session under a read in flight
NextConc == Next \/ CloserClear \/ CloserEof \/ CloserShut

ConcSpec == Init /\ [][NextConc]_vars

(***************************************************************************)
(* One call of one function of the library on one argument: Init draws the *)
(* function and the argument, the action applies it and records in last    *)
(* what it returned or raised.                                             *)
(***************************************************************************)
\* the sequences over alphabet of length at most n
RECURSIVE Strings(_, _)
Strings(alphabet, n) ==
    IF n = 0 THEN {<<>>}
    ELSE LET shorter == Strings(alphabet, n - 1)
         IN  shorter \cup {Append(t, c) : t \in shorter, c \in alphabet}

Chars(t) == {t[i] : i \in 1..Len(t)}

\* Session.write(buffer): texts of ASCII characters, of U+00FF (the character
\* whose latin-1 byte is IAC) and of another character above 127
WriteChars == {"A", ";", IAC, "DO"}
WriteArgs == {[fn |-> "Session.write", buffer |-> t] : t \in Strings(WriteChars, MaxWriteLen)}

\* Session.write on a connected or unconnected session
SessionWrite ==
    /\ arg.fn = "Session.write"
    /\ LET w == write(session, arg.buffer, FALSE)
           failed == w.value.kind = "raise"
       IN  /\ sent' = IF failed THEN sent ELSE w.bytes
           /\ last' = [Entry("Session.write", w.value) EXCEPT
                            !.wrote = IF failed THEN 0 ELSE 1]
    /\ UNCHANGED <<obj, arg, owner, session, tl1, nsock, closes, rx, peerClosed, replies,
                   call, closer, clock, queued>>

\* constants.py: the values of the enumerations
StatusCode ==
    {<<"C", "O", "M", "P", "L", "D">>, <<"D", "E", "L", "A", "Y">>,
     <<"D", "E", "N", "Y">>, <<"P", "R", "T", "L">>, <<"R", "T", "R", "V">>,
     <<"N", "O", "N", "E">>}

AlarmCode == {<<"*", "C">>, <<"*", "*">>, <<"*">>, <<"A">>}

Spaces(n) == [i \in 1..n |-> SP]

\* tokens outside the enumerations
BadStatus == <<"B", "O", "G", "U", "S">>
BadAlarm == <<"X">>
BadTerminator == "!"

AckCodes == {<<"O", "K">>, <<"I", "P">>}
TestCtags == {<<"1">>, <<"C", "T", "A", "G">>}
Clauses == {<<<<"R", "E", "P", "T">>>>, <<<<"R", "E", "P", "T">>, <<"A", "L", "M">>>>}

\* \r\n\n, pad spaces, CODE, a space, CTAG, '<'
AckBuffer(pad, code, ctag) ==
    <<CR, LF, LF>> \o Spaces(pad) \o code \o <<SP>> \o ctag \o <<TerminatorACK>>

\* the 6-character preamble, the header line, 'M', gap spaces, CTAG, a space,
\* the status, the body and the terminator
ResponseBuffer(gap, ctag, status, terminator) ==
    Pad \o HeaderLine \o <<CR, LF>>
        \o <<"M">> \o Spaces(gap) \o ctag \o <<SP>> \o status \o <<CR, LF>>
        \o BodyText \o <<terminator>>

\* the same with the identifier line CODE, a space, ATAG, a space, the clause
AutonomousBuffer(code, atag, clause, terminator) ==
    Pad \o HeaderLine \o <<CR, LF>>
        \o code \o <<SP>> \o atag \o <<SP>> \o Join(clause, <<SP>>) \o <<CR, LF>>
        \o BodyText \o <<terminator>>

\* parse_response(text): the text, with the tokens it was put together from
AckArgs ==
    {[fn |-> "parse_response", shape |-> "ack", pad |-> pad, code |-> code,
      ctag |-> ctag, text |-> AckBuffer(pad, code, ctag)] :
        pad \in {3, 6}, code \in AckCodes, ctag \in TestCtags}

ResponseArgs ==
    {[fn |-> "parse_response", shape |-> "response", gap |-> gap, ctag |-> ctag,
      status |-> status, terminator |-> terminator,
      text |-> ResponseBuffer(gap, ctag, status, terminator)] :
        gap \in {1, 2}, ctag \in TestCtags, status \in StatusCode \cup {BadStatus},
        terminator \in (Terminator \ {TerminatorACK}) \cup {BadTerminator}}

AutonomousArgs ==
    {[fn |-> "parse_response", shape |-> "autonomous", code |-> code, atag |-> <<"7">>,
      clause |-> clause, terminator |-> terminator,
      text |-> AutonomousBuffer(code, <<"7">>, clause, terminator)] :
        code \in AlarmCode \cup {BadAlarm}, clause \in Clauses,
        terminator \in (Terminator \ {TerminatorACK}) \cup {BadTerminator}}

\* short texts, and messages that lost their first character
OtherArgs ==
    {[fn |-> "parse_response", shape |-> "other", text |-> t] :
        t \in Strings({CR, LF, "M"}, MaxShortLen)
               \cup {Tail(a.text) : a \in AckArgs \cup ResponseArgs \cup AutonomousArgs}}

ParseArgs == AckArgs \cup ResponseArgs \cup AutonomousArgs \cup OtherArgs

\* parse_response(text) with the default vendor profile and no modifiers
ParseResponse ==
    /\ arg.fn = "parse_response"
    /\ last' = Entry("parse_response", parse_response(arg.text))
    /\ UNCHANGED <<obj, arg, owner, session, tl1, nsock, closes, rx, peerClosed, replies,
                   sent, call, closer, clock, queued>>

(***************************************************************************)
(* Rendering: CommandCode, DataBlock / ParamBlock, FiberhomeCommand, Login *)
(***************************************************************************)
\* base.py, Parameter(key, value), value a String or a str
Parameter(key, value) == [key |-> key, value |-> value]

\* Parameter.tuple, line 54
Parameter_tuple(p) == <<p.key, p.value>>

\* dict: a key already present keeps its place and takes the new value
DictPut(d, kv) ==
    IF \E i \in 1..Len(d) : d[i][1] = kv[1]
    THEN [i \in 1..Len(d) |-> IF d[i][1] = kv[1] THEN kv ELSE d[i]]
    ELSE Append(d, kv)

\* DataBlock._parsed, lines 75-78: dict(getattr(self, item).tuple() for item
\* in self.__slots__), slots the parameters in the order of __slots__
RECURSIVE DataBlock_parsed(_)
DataBlock_parsed(slots) ==
    IF slots = <<>> THEN <<>>
    ELSE DictPut(DataBlock_parsed(DropLast(slots)), Parameter_tuple(slots[Len(slots)]))

\* DataBlock.__str__, lines 22-25
DataBlock_str(slots) ==
    LET items == DataBlock_parsed(slots)
    IN  Join([i \in 1..Len(items) |-> items[i][1] \o <<"=">> \o items[i][2]], <<",">>)

\* ParamBlock.__new__, line 79: __slots__ = tuple(set(slots) | set(())), the
\* keyword arguments in the iteration order of a set of str, which varies
\* with the hash seed of the process
ParamBlock_slots(kwargs) ==
    LET n == Len(kwargs)
        orders == {f \in [1..n -> 1..n] : \A i, j \in 1..n : f[i] = f[j] => i = j}
    IN  {[i \in 1..n |-> kwargs[f[i]]] : f \in orders}

\* StagingBlock.__init__, line 182
DefaultCtag == <<"C", "T", "A", "G">>

\* FiberhomeCommand.__init__, lines 61-65, with access and body as set by
\* the subclass (the parameters in the order of the dict)
FiberhomeCommand(verb, access, body) ==
    [isCommand |-> TRUE,
     command |-> [verb |-> verb, mod1 |-> <<>>, mod2 |-> <<>>],
     staging |-> [tid |-> <<>>, aid |-> <<>>, ctag |-> DefaultCtag, gblock |-> <<>>],
     payload |-> <<>>, access |-> access, body |-> body]

\* FiberhomeCommand._build and __str__, lines 77-83 and 95-96: aid and
\* payload are the two ParamBlocks, in the order of their __slots__
FiberhomeCommand_str(cmd, aid, payload) ==
    Command_str([cmd EXCEPT !.staging.aid = DataBlock_str(aid),
                            !.payload = DataBlock_str(payload)])

\* fiberhome/commands.py, Login.__init__, lines 110-114
Login(username, password) ==
    FiberhomeCommand(<<"L", "O", "G", "I", "N">>, <<>>,
                     <<Parameter(<<"U", "N">>, username),
                       Parameter(<<"P", "W", "D">>, password)>>)

Usernames == {<<>>, <<"a", "d", "m", "i", "n">>}
Passwords == {<<>>, <<"s", "e", "c", "r", "e", "t">>}

\* str(command) for a Login
CommandArgs ==
    {[fn |-> "Command.__str__", cmd |-> Login(u, pw)] : u \in Usernames, pw \in Passwords}

\* str(CommandCode(verb, mod1, mod2)), each field empty or a word
CodeWords == {<<>>, <<"A", "C", "T">>, <<"U", "S", "E", "R">>}
CodeArgs ==
    {[fn |-> "CommandCode.__str__", code |-> [verb |-> v, mod1 |-> m1, mod2 |-> m2]] :
        v \in CodeWords, m1 \in CodeWords, m2 \in CodeWords}

\* str(ParamBlock(**kwargs)): the parameters given, in the order given
ParamKeys == {<<"K">>, <<"J">>}
ParamValues == {<<>>, <<"1">>, <<"2">>}
Parameters == {Parameter(k, v) : k \in ParamKeys, v \in ParamValues}
BlockArgs ==
    {[fn |-> "DataBlock.__str__", params |-> ps] : ps \in Strings(Parameters, MaxParams)}

RenderCommand ==
    /\ arg.fn = "Command.__str__"
    /\ \E aid \in ParamBlock_slots(arg.cmd.access),
          payload \in ParamBlock_slots(arg.cmd.body) :
          last' = Entry("Command.__str__",
                        Text(FiberhomeCommand_str(arg.cmd, aid, payload)))
    /\ UNCHANGED <<obj, arg, owner, session, tl1, nsock, closes, rx, peerClosed, replies,
                   sent, call, closer, clock, queued>>

RenderCode ==
    /\ arg.fn = "CommandCode.__str__"
    /\ last' = Entry("CommandCode.__str__", Text(CommandCode_str(arg.code)))
    /\ UNCHANGED <<obj, arg, owner, session, tl1, nsock, closes, rx, peerClosed, replies,
                   sent, call, closer, clock, queued>>

RenderBlock ==
    /\ arg.fn = "DataBlock.__str__"
    /\ \E slots \in ParamBlock_slots(arg.params) :
          last' = Entry("DataBlock.__str__", Text(DataBlock_str(slots)))
    /\ UNCHANGED <<obj, arg, owner, session, tl1, nsock, closes, rx, peerClosed, replies,
                   sent, call, closer, clock, queued>>

(***************************************************************************)
(* String (src/tl1/tl1types.py): the comparison methods.                   *)
(***************************************************************************)
\* the code point order of the characters compared
CharRank(c) == IF c = "a" THEN 1 ELSE 2

\* str.__lt__: the order of the first difference, a proper prefix first
RECURSIVE str_lt(_, _)
str_lt(a, b) ==
    IF b = <<>> THEN FALSE
    ELSE IF a = <<>> THEN TRUE
    ELSE IF a[1] # b[1] THEN CharRank(a[1]) < CharRank(b[1])
    ELSE str_lt(Tail(a), Tail(b))

\* a <op> b for two str
str_compare(op, a, b) ==
    CASE op = "__eq__" -> a = b
      [] op = "__le__" -> str_lt(a, b) \/ a = b
      [] op = "__ge__" -> ~str_lt(a, b)
      [] op = "__lt__" -> str_lt(a, b)
      [] op = "__gt__" -> str_lt(b, a)

\* String.__eq__, __le__, __ge__, __lt__, __gt__, lines 173-186, self.value
\* and value both str
String_compare(op, self, value) ==
    CASE op = "__eq__" -> self = value
      [] op = "__le__" -> str_compare("__le__", self, value)
      [] op = "__ge__" -> str_compare("__ge__", self, value)
      [] op = "__lt__" -> str_compare("__lt__", self, value)
      [] op = "__gt__" -> str_compare("__lt__", self, value)

CompareOps == {"__eq__", "__le__", "__ge__", "__lt__", "__gt__"}
CompareTexts == Strings({"a", "b"}, MaxCompareLen)
CompareArgs ==
    {[fn |-> "String.compare", op |-> op, self |-> a, value |-> b] :
        op \in CompareOps, a \in CompareTexts, b \in CompareTexts}

\* String(self) <op> value
Compare ==
    /\ arg.fn = "String.compare"
    /\ last' = Entry("String.compare", BoolValue(String_compare(arg.op, arg.self, arg.value)))
    /\ UNCHANGED <<obj, arg, owner, session, tl1, nsock, closes, rx, peerClosed, replies,
                   sent, call, closer, clock, queued>>

(***************************************************************************)
(* The Fiberhome vendor profile (src/fiberhome/objects.py): Response with  *)
(* its table parser and its flat KEY=VALUE parser.                         *)
(***************************************************************************)
\* str.strip(): the whitespace of the texts handled here
Whitespace == {SP, TAB, CR, LF}

RECURSIVE LStrip(_)
LStrip(t) == IF t # <<>> /\ t[1] \in Whitespace THEN LStrip(Tail(t)) ELSE t

RECURSIVE RStrip(_)
RStrip(t) == IF t # <<>> /\ t[Len(t)] \in Whitespace THEN RStrip(DropLast(t)) ELSE t

Strip(t) == LStrip(RStrip(t))

Letters ==
    {"A", "B", "C", "D", "E", "F", "G", "H", "I", "J", "K", "L", "M", "N", "O", "P", "Q",
     "R", "S", "T", "U", "V", "W", "X", "Y", "Z", "a", "b", "c", "d", "e", "f", "g", "h",
     "i", "j", "k", "l", "m", "n", "o", "p", "q", "r", "s", "t", "u", "v", "w", "x", "y",
     "z", "_"}

\* str.isidentifier, which type() requires of every name in __slots__
IsIdentifier(t) ==
    /\ t # <<>>
    /\ t[1] \in Letters
    /\ \A i \in 1..Len(t) : t[i] \in Letters \cup Digits

\* int(t) returns: t is a text of decimal digits (the texts converted here
\* carry no sign, blank or underscore)
IsInt(t) == t # <<>> /\ AllDigits(t)

\* dict(pairs): a key already present keeps its place and takes the new value
RECURSIVE Dict(_)
Dict(pairs) == IF pairs = <<>> THEN <<>> ELSE DictPut(Dict(DropLast(pairs)), pairs[Len(pairs)])

\* zip(a, b): as many pairs as the shorter of the two
Zip(a, b) == [i \in 1..Min(Len(a), Len(b)) |-> <<a[i], b[i]>>]

\* base.py, ImmutableRecord.__init__, lines 436-440, of a type made with
\* type(name, (ImmutableRecord,), {'__slots__': slots}): the slots and the
\* attributes set, every key of kwargs being one of the slots
ImmutableRecord(slots, kwargs) == [kind |-> "ImmutableRecord", slots |-> slots, fields |-> kwargs]

\* PacketData and PacketTable, lines 15-63
PacketData(blocks, number, records, title, columns, rows) ==
    [kind |-> "PacketData", blocks |-> blocks, number |-> number, records |-> records,
     title |-> title, columns |-> columns, rows |-> rows]

\* a table head whose column header row follows the title directly
table_head_headerFirst(lines) == [title |-> lines[1], columns |-> lines[2], rows |-> From(lines, 3)]

\* parse_datatable, lines 160-162: the title, one line skipped, the column
\* header row, then the data lines
table_head(lines) == [title |-> lines[1], columns |-> lines[3], rows |-> From(lines, 3)]

\* Response.parse_datatable, lines 128-169
parse_datatable(text) ==
    LET lines == Split(text, <<CR, LF>>, -1)
        params == [i \in 1..Min(3, Len(lines)) |-> Split(Strip(lines[i]), <<"=">>, -1)]
        rest == From(lines, 4)
    IN  IF \E i \in 1..Len(params) : Len(params[i]) < 2 THEN Raise("IndexError")
        ELSE IF Len(params) # 3 THEN Raise("ValueError")
        ELSE IF \E i \in 1..3 : ~IsInt(params[i][2]) THEN Raise("ValueError")
        ELSE IF Len(rest) < 3 THEN Raise("IndexError")
        ELSE
        LET head == table_head(rest)
            columns == Split(head.columns, <<TAB>>, -1)
            records == Number(params[3][2])
        IN  IF \E i \in 1..Len(columns) : ~IsIdentifier(columns[i]) THEN Raise("TypeError")
            ELSE IF records > Len(head.rows) THEN Raise("IndexError")
            ELSE PacketData(Number(params[1][2]), Number(params[2][2]), records,
                            head.title, columns,
                            [i \in 1..records |->
                                ImmutableRecord(columns,
                                    Dict(Zip(columns, Split(head.rows[i], <<TAB>>, -1))))])

\* Response.__init__, lines 117-125: the body as one record of KEY=VALUE
\* pairs separated by three spaces
parse_flat(text) ==
    LET data == Split(Strip(text), <<SP, SP, SP>>, -1)
        pairs == [i \in 1..Len(data) |-> Split(data[i], <<"=">>, -1)]
    IN  IF \E i \in 1..Len(pairs) : Len(pairs[i]) # 2 THEN Raise("ValueError")
        ELSE LET mapped == Dict(pairs)
             IN  IF \E i \in 1..Len(mapped) : ~IsIdentifier(mapped[i][1])
                 THEN Raise("TypeError")
                 ELSE ImmutableRecord([i \in 1..Len(mapped) |-> mapped[i][1]], mapped)

\* fiberhome Response.__init__, lines 92-125, base the object as
\* super().__init__ leaves it
fiberhome_Response(base) ==
    LET isList == SubSeq(base.text, 4, Min(6, Len(base.text))) = <<"t", "o", "t">>
        result == IF isList THEN parse_datatable(base.text) ELSE parse_flat(base.text)
    IN  IF result.kind = "raise" THEN result
        ELSE [kind |-> "Response", source_id |-> base.source_id, datetime |-> base.datetime,
              type |-> base.type, ctag |-> base.ctag, status |-> base.status,
              text |-> base.text, terminator |-> base.terminator,
              res_type |-> IF isList THEN "LIST" ELSE "DEFAULT", result |-> result]

\* parse_response(text, {}, Fiberhome()): vendor.response is the fiberhome
\* Response, the acknowledgment and autonomous constructors are the default
Fiberhome_parse_response(text) ==
    LET base == parse_response(text)
    IN  IF base.kind = "Response" THEN fiberhome_Response(base) ELSE base

\* a synchronous response with the given body
BodyBuffer(body) ==
    Pad \o HeaderLine \o <<CR, LF>>
        \o <<"M", SP, SP, "1", SP, "C", "O", "M", "P", "L", "D">> \o <<CR, LF>>
        \o body \o <<";">>

\* the three metadata lines of a table body and the separator line
TableMeta(records) ==
    <<SP, SP, SP, "t", "o", "t", "a", "l", "_", "b", "l", "o", "c", "k", "s", "=", "1">> \o <<CR, LF>>
        \o <<SP, SP, SP, "b", "l", "o", "c", "k", "_", "n", "u", "m", "b", "e", "r", "=", "1">> \o <<CR, LF>>
        \o <<SP, SP, SP, "b", "l", "o", "c", "k", "_", "r", "e", "c", "o", "r", "d", "s", "=">> \o DigitText(records) \o <<CR, LF>>
        \o <<CR, LF>>

TableTitle == <<"T">>
TableRule == <<"-", "-">>
TableHeader == <<"A", TAB, "B">>
\* data lines of one, two and three cells
TableLines == {<<"1">>, <<"1", TAB, "2">>, <<"1", TAB, "2", TAB, "3">>}

\* a table body: layout "rule" has the rule between the title and the
\* header row, layout "header" has it after the header row; every line
\* ends with CR LF, the last one only when closed
TableBody(layout, records, rows, closed) ==
    LET head == IF layout = "rule" THEN <<TableTitle, TableRule, TableHeader>>
                ELSE <<TableTitle, TableHeader, TableRule>>
    IN  TableMeta(records) \o Join(head \o rows, <<CR, LF>>)
            \o (IF closed THEN <<CR, LF>> ELSE <<>>)

TableArgs ==
    {[fn |-> "Fiberhome.parse_response", shape |-> "table", layout |-> layout,
      records |-> records, rows |-> rows, closed |-> closed,
      body |-> TableBody(layout, records, rows, closed),
      text |-> BodyBuffer(TableBody(layout, records, rows, closed))] :
        layout \in {"rule", "header"}, records \in 0..MaxRows,
        rows \in Strings(TableLines, MaxRows), closed \in BOOLEAN}

FlatPairs == {<<"E", "N", "=", "0">>, <<"E", "N", "D", "E", "S", "C", "=", "N", "o", SP, "e", "r", "r", "o", "r">>}

\* a flat body: nothing, or three spaces, the pairs three spaces apart, CR LF
FlatBody(pairs) ==
    IF pairs = <<>> THEN <<>>
    ELSE <<SP, SP, SP>> \o Join(pairs, <<SP, SP, SP>>) \o <<CR, LF>>

FlatArgs ==
    {[fn |-> "Fiberhome.parse_response", shape |-> "flat", pairs |-> pairs,
      body |-> FlatBody(pairs), text |-> BodyBuffer(FlatBody(pairs))] :
        pairs \in Strings(FlatPairs, MaxPairs)}

FiberhomeArgs == TableArgs \cup FlatArgs

\* parse_response(buffer, {}, Fiberhome())
FiberhomeParse ==
    /\ arg.fn = "Fiberhome.parse_response"
    /\ last' = Entry("Fiberhome.parse_response", Fiberhome_parse_response(arg.text))
    /\ UNCHANGED <<obj, arg, owner, session, tl1, nsock, closes, rx, peerClosed, replies,
                   sent, call, closer, clock, queued>>

(***************************************************************************)
(* The value types (src/tl1/tl1types.py): objects that are constructed and *)
(* then assigned to.                                                       *)
(***************************************************************************)
IntValue(n) == [kind |-> "int", int |-> n]

\* ipaddress.IPv4Address._parse_octet: one to three decimal digits without
\* a leading zero, at most 255
ParseOctet(t) ==
    /\ t # <<>>
    /\ AllDigits(t)
    /\ Len(t) <= 3
    /\ (Len(t) > 1 => t[1] # "0")
    /\ Number(t) <= 255

\* ipaddress.IPv4Address(value) as called by IPv4Address._validate, line 258:
\* TRUE when it returns, FALSE when it raises AddressValueError. An int is
\* taken as the address of that number when it is in 0..2^32-1 (the ints of
\* this module are all below 2^32), any other value by its str()
ipaddress_IPv4Address(value) ==
    IF value.kind = "int" THEN 0 <= value.int
    ELSE IF value.kind = "str"
         THEN LET octets == Split(value.text, <<".">>, -1)
              IN  /\ value.text # <<>>
                  /\ Len(octets) = 4
                  /\ \A i \in 1..4 : ParseOctet(octets[i])
         ELSE FALSE

\* IPv4Address.__setattr__, lines 260-263: the object after self.<name> =
\* value, or the error raised
IPv4Address_setattr(self, name, value) ==
    IF ~ipaddress_IPv4Address(value) THEN Raise("AddressValueError")
    ELSE IF name = "value" THEN [self EXCEPT !.value = value]
    ELSE self

\* IPv4Address.__init__, lines 229-239: String.__init__ assigns self.value
\* (tl1types.py:151), then self.value is assigned again and validated
IPv4Address(value) ==
    IPv4Address_setattr([kind |-> "object", class |-> "IPv4Address", value |-> NoneValue], "value", value)

AddressTexts ==
    {<<"1", ".", "1", ".", "1", ".", "1">>,
     <<"2", "5", "5", ".", "0", ".", "0", ".", "1">>,
     <<"2", "5", "6", ".", "1", ".", "1", ".", "1">>,
     <<"0", "1", ".", "1", ".", "1", ".", "1">>,
     <<"1", ".", "2", ".", "3">>,
     <<"1", ".", ".", "1", ".", "1">>,
     <<"1", ".", "1", ".", "1", ".", "x">>,
     <<"1", ".", "1", ".", "1", ".", "1", SP>>,
     <<>>}
AddressInts == {0 - 1, 0, 5}
AddressValues ==
    {Text(t) : t \in AddressTexts} \cup {IntValue(n) : n \in AddressInts} \cup {NoneValue}
AttrNames == {"value", "other"}

\* ip = IPv4Address(value): a failed construction leaves no new object
Construct ==
    /\ obj.class \in {"", "IPv4Address"}
    /\ \E value \in AddressValues :
          LET made == IPv4Address(value)
          IN  /\ obj' = IF made.kind = "raise" THEN obj ELSE made
              /\ last' = [Entry("IPv4Address", IF made.kind = "raise" THEN made ELSE NoneValue)
                             EXCEPT !.args = <<value>>]
    /\ UNCHANGED <<arg, owner, session, tl1, nsock, closes, rx, peerClosed, replies,
                   sent, call, closer, clock, queued>>

\* ip.<name> = value
Assign ==
    /\ obj.class = "IPv4Address"
    /\ \E name \in AttrNames, value \in AddressValues :
          LET set == IPv4Address_setattr(obj, name, value)
          IN  /\ obj' = IF set.kind = "raise" THEN obj ELSE set
              /\ last' = [Entry("IPv4Address.__setattr__",
                                 IF set.kind = "raise" THEN set ELSE NoneValue)
                             EXCEPT !.args = <<name, value>>]
    /\ UNCHANGED <<arg, owner, session, tl1, nsock, closes, rx, peerClosed, replies,
                   sent, call, closer, clock, queued>>

(***************************************************************************)
(* FiberhomeCommand objects (src/fiberhome/commands.py): built, changed    *)
(* and rendered, with the cache of the rendered string.                    *)
(***************************************************************************)
\* the orders in which a set of n names may be iterated
SlotOrders(n) == {f \in [1..n -> 1..n] : \A i, j \in 1..n : f[i] = f[j] => i = j}

\* ParamBlock.__new__, line 79, within one process: the iteration order of
\* the set of names is fixed by the hash seed, here an order for the names
\* of access and one for two names of body
ParamBlock_slots_of(kwargs, order) ==
    IF Len(kwargs) = Len(order) THEN [i \in 1..Len(kwargs) |-> kwargs[order[i]]]
    ELSE kwargs

\* FiberhomeCommand.__init__, lines 61-65: the fields of the cache;
\* hashorder stands for the hash seed of the process the object lives in
CommandObject(class, cmd, hashorder) ==
    [kind |-> "object", class |-> class, result |-> <<>>, changed |-> TRUE,
     hashorder |-> hashorder] @@ cmd

\* ConfigONU.__init__, lines 309-321
ConfigONU(olt_id, pon_id, onu_id_type, onu_id, auth_type, hashorder) ==
    CommandObject("ConfigONU",
        [FiberhomeCommand(<<"C", "F", "G">>,
                          <<Parameter(<<"O", "L", "T", "I", "D">>, olt_id),
                            Parameter(<<"P", "O", "N", "I", "D">>, pon_id),
                            Parameter(<<"O", "N", "U", "I", "D", "T", "Y", "P", "E">>, onu_id_type),
                            Parameter(<<"O", "N", "U", "I", "D">>, onu_id)>>,
                          <<Parameter(<<"A", "U", "T", "H", "T", "Y", "P", "E">>, auth_type)>>)
            EXCEPT !.command.mod1 = <<"O", "N", "U">>],
        hashorder)

\* dict.update({name: parameter}), the name standing one to one for the
\* wire key: the entry of that name is replaced, a new name goes last
dict_update(d, parameter) ==
    IF \E i \in 1..Len(d) : d[i].key = parameter.key
    THEN [i \in 1..Len(d) |-> IF d[i].key = parameter.key THEN parameter ELSE d[i]]
    ELSE Append(d, parameter)

\* ConfigONU.set_auth_info, lines 324-327
set_auth_info(self, auth_info) ==
    [self EXCEPT !.body = dict_update(@, Parameter(<<"A", "U", "T", "H", "I", "N", "F", "O">>, auth_info))]

\* FiberhomeCommand.__setattr__, lines 86-89, for self.body = value: the
\* test hasattr(self, '__changed') is false, the flag being stored under
\* its mangled name _FiberhomeCommand__changed, so the flag is left alone
FiberhomeCommand_setattr(self, value) == [self EXCEPT !.body = value]

\* FiberhomeCommand._build, lines 67-84, aid and payload the parameters of
\* access and body in the order of the slots of their ParamBlock
FiberhomeCommand_build(self, aid, payload) ==
    LET assigned == [self EXCEPT !.staging.aid = DataBlock_str(aid),
                                 !.payload = DataBlock_str(payload)]
    IN  IF ~self.changed THEN assigned
        ELSE [assigned EXCEPT !.result = Command_str(assigned), !.changed = FALSE]

AuthInfos == {<<"x">>}
StagingCtags == {DefaultCtag, <<"7">>}
StagingTids == {<<>>, <<"T">>}
Bodies == {<<Parameter(<<"A", "U", "T", "H", "T", "Y", "P", "E">>, <<"M", "A", "C">>)>>}

\* cmd = ConfigONU(olt_id, pon_id, onu_id_type, onu_id)
NewCommand ==
    /\ obj.class = ""
    /\ \E access \in SlotOrders(4), body \in SlotOrders(2) :
          obj' = ConfigONU(<<"1", ".", "1", ".", "1", ".", "1">>, <<"N", "A">>,
                           <<"M", "A", "C">>, <<"F">>, <<"L", "O", "I", "D">>,
                           [access |-> access, body |-> body])
    /\ last' = Entry("ConfigONU", NoneValue)
    /\ UNCHANGED <<arg, owner, session, tl1, nsock, closes, rx, peerClosed, replies,
                   sent, call, closer, clock, queued>>

\* cmd.set_auth_info(auth_info)
SetAuthInfo ==
    /\ obj.class = "ConfigONU"
    /\ \E auth_info \in AuthInfos : obj' = set_auth_info(obj, auth_info)
    /\ last' = Entry("ConfigONU.set_auth_info", NoneValue)
    /\ UNCHANGED <<arg, owner, session, tl1, nsock, closes, rx, peerClosed, replies,
                   sent, call, closer, clock, queued>>

\* cmd.body = {...}
AssignBody ==
    /\ obj.class = "ConfigONU"
    /\ \E body \in Bodies : obj' = FiberhomeCommand_setattr(obj, body)
    /\ last' = Entry("FiberhomeCommand.__setattr__", NoneValue)
    /\ UNCHANGED <<arg, owner, session, tl1, nsock, closes, rx, peerClosed, replies,
                   sent, call, closer, clock, queued>>

\* cmd.staging.ctag = ctag
AssignCtag ==
    /\ obj.class = "ConfigONU"
    /\ \E ctag \in StagingCtags : obj' = [obj EXCEPT !.staging.ctag = ctag]
    /\ last' = Entry("StagingBlock.ctag", NoneValue)
    /\ UNCHANGED <<arg, owner, session, tl1, nsock, closes, rx, peerClosed, replies,
                   sent, call, closer, clock, queued>>

\* cmd.staging.tid = tid
AssignTid ==
    /\ obj.class = "ConfigONU"
    /\ \E tid \in StagingTids : obj' = [obj EXCEPT !.staging.tid = tid]
    /\ last' = Entry("StagingBlock.tid", NoneValue)
    /\ UNCHANGED <<arg, owner, session, tl1, nsock, closes, rx, peerClosed, replies,
                   sent, call, closer, clock, queued>>

\* str(cmd), FiberhomeCommand.__str__, lines 91-96; args keeps the command
\* as the render leaves it
RenderObject ==
    /\ obj.class = "ConfigONU"
    /\ LET built == FiberhomeCommand_build(obj,
                        ParamBlock_slots_of(obj.access, obj.hashorder.access),
                        ParamBlock_slots_of(obj.body, obj.hashorder.body))
       IN  /\ obj' = built
           /\ last' = [Entry("FiberhomeCommand.__str__", Text(built.result))
                          EXCEPT !.args = <<built>>]
    /\ UNCHANGED <<arg, owner, session, tl1, nsock, closes, rx, peerClosed, replies,
                   sent, call, closer, clock, queued>>

(***************************************************************************)
(* AddONU (src/fiberhome/commands.py): one parameter set split between the *)
(* addressing segment and the payload by DataBlock._get_data.              *)
(***************************************************************************)
\* a keyword argument name=Parameter(key, value) of ParamBlock(**kwargs)
Slot(name, key, value) == [name |-> name, key |-> key, value |-> value]

\* DataBlock._get_data(*params), primitives.py lines 27-54: no names, the
\* whole block; else key=value of the slots whose name is given, in the
\* order of __slots__
DataBlock_get_data(slots, params) ==
    IF params = {} THEN DataBlock_str(slots)
    ELSE LET chosen == SelectSeq(slots, LAMBDA s : s.name \in params)
         IN  Join([i \in 1..Len(chosen) |-> chosen[i].key \o <<"=">> \o chosen[i].value],
                  <<",">>)

\* AddONU.__init__, optional_params, lines 227-252
OptionalName(key) ==
    CASE key = "auth_type" -> <<"A", "U", "T", "H", "T", "Y", "P", "E">>
      [] key = "password" -> <<"P", "W", "D">>
      [] key = "name" -> <<"N", "A", "M", "E">>
      [] key = "description" -> <<"D", "E", "S", "C">>
      [] key = "bandtype" -> <<"B", "A", "N", "D", "T", "Y", "P", "E">>
      [] OTHER -> <<>>
OptionalParams == {"auth_type", "password", "name", "description", "bandtype"}

\* lines 254-259, the keyword arguments of the required block
AddONU_required(olt_id, pon_id, onu_id, model) ==
    <<Slot("olt_id", <<"O", "L", "T", "I", "D">>, olt_id),
      Slot("pon_id", <<"P", "O", "N", "I", "D">>, pon_id),
      Slot("onu_id", <<"O", "N", "U", "I", "D">>, onu_id),
      Slot("model", <<"O", "N", "U", "T", "Y", "P", "E">>, model)>>

\* lines 261-268, the keyword arguments of the optional block
AddONU_options(optionals) ==
    [i \in 1..Len(optionals) |->
        Slot(optionals[i][1], OptionalName(optionals[i][1]), optionals[i][2])]

\* AddONU.__init__, lines 226-278, with the two blocks' __slots__ as the
\* process orders them: the command made, or the error raised
AddONU(olt_id, required, optionals, options) ==
    IF IPv4Address(Text(olt_id)).kind = "raise" THEN IPv4Address(Text(olt_id))
    ELSE IF \E i \in 1..Len(optionals) : optionals[i][1] \notin OptionalParams
         THEN Raise("ValueError")
    ELSE [FiberhomeCommand(<<"A", "D", "D">>, <<>>, <<>>)
            EXCEPT !.command.mod1 = <<"O", "N", "U">>,
                   !.staging.aid = DataBlock_get_data(required, {"olt_id", "pon_id"}),
                   !.payload =
                       Join(<<DataBlock_get_data(required, {"onu_id", "model"})>>
                              \o (IF options = <<>> THEN <<>>
                                  ELSE <<DataBlock_str(options)>>),
                            <<",">>)]

\* str(AddONU(...)): FiberhomeCommand.__str__, lines 91-96, on the command
AddONU_str(cmd) ==
    Text(FiberhomeCommand_str(cmd, cmd.access, cmd.body))

OltIds == {<<"1", ".", "1", ".", "1", ".", "1">>, <<"x">>}
PonIds == {<<>>, <<"N", "A">>}
OnuIds == {<<"F">>}
Models == {<<>>, <<"A", "N">>}
OptionalSets ==
    {<<>>,
     << <<"name", <<"x">> >> >>,
     << <<"name", <<"x">> >>, <<"password", <<"p">> >> >>,
     << <<"description", <<>> >> >>,
     << <<"zz", <<"1">> >> >>}

\* str(AddONU(olt_id, pon_id, onu_id, model, **optionals))
AddONUArgs ==
    {[fn |-> "AddONU.__str__", olt_id |-> o, pon_id |-> p, onu_id |-> u, model |-> m,
      optionals |-> ops] :
        o \in OltIds, p \in PonIds, u \in OnuIds, m \in Models, ops \in OptionalSets}

RenderAddONU ==
    /\ arg.fn = "AddONU.__str__"
    /\ \E required \in ParamBlock_slots(
                          AddONU_required(arg.olt_id, arg.pon_id, arg.onu_id, arg.model)),
          options \in ParamBlock_slots(AddONU_options(arg.optionals)) :
          LET made == AddONU(arg.olt_id, required, arg.optionals, options)
          IN  last' = [Entry("AddONU.__str__",
                             IF "kind" \in DOMAIN made THEN made ELSE AddONU_str(made))
                          EXCEPT !.args = IF "kind" \in DOMAIN made THEN <<>> ELSE <<made>>]
    /\ UNCHANGED <<obj, arg, owner, session, tl1, nsock, closes, rx, peerClosed, replies,
                   sent, call, closer, clock, queued>>

CallArgs ==
    WriteArgs \cup ParseArgs \cup CommandArgs \cup CodeArgs \cup BlockArgs \cup CompareArgs
        \cup FiberhomeArgs \cup AddONUArgs

CallInit ==
    /\ arg \in CallArgs
    /\ owner = "session"
    /\ session \in IF arg.fn = "Session.write"
                    THEN {NewSession(host, NoPort, DefaultTimeout) : host \in {NoHost}}
                         \cup {NewSession(host, port, DefaultTimeout) :
                                  host \in Hosts, port \in Ports}
                    ELSE {NewSession(NoHost, NoPort, DefaultTimeout)}
    /\ tl1 = [connected |-> FALSE, session |-> FALSE]
    /\ nsock = IF session.sock = NoSock THEN 0 ELSE 1
    /\ closes = [k \in 1..MaxSockets |-> 0]
    /\ rx = <<>>
    /\ peerClosed = FALSE
    /\ replies = <<>>
    /\ sent = <<>>
    /\ call = IdleCall
    /\ closer = IdleCloser
    /\ clock = 0
    /\ last = NoEntry
    /\ queued = NoQueue
    /\ obj = NoObj

CallNext ==
    \/ SessionWrite
    \/ ParseResponse
    \/ RenderCommand
    \/ RenderCode
    \/ RenderBlock
    \/ Compare
    \/ FiberhomeParse
    \/ RenderAddONU

CallSpec == CallInit /\ [][CallNext]_vars

ObjInit ==
    /\ obj = NoObj
    /\ arg = NoArg
    /\ owner = "session"
    /\ session = NewSession(NoHost, NoPort, DefaultTimeout)
    /\ tl1 = [connected |-> FALSE, session |-> FALSE]
    /\ nsock = 0
    /\ closes = [k \in 1..MaxSockets |-> 0]
    /\ rx = <<>>
    /\ peerClosed = FALSE
    /\ replies = <<>>
    /\ sent = <<>>
    /\ call = IdleCall
    /\ closer = IdleCloser
    /\ clock = 0
    /\ last = NoEntry
    /\ queued = NoQueue

ObjNext ==
    \/ Construct
    \/ Assign
    \/ NewCommand
    \/ SetAuthInfo
    \/ AssignBody
    \/ AssignCtag
    \/ AssignTid
    \/ RenderObject

ObjSpec == ObjInit /\ [][ObjNext]_vars

(***************************************************************************)
(* Properties.                                                             *)
(***************************************************************************)
IsRaise(v, errors) == v.kind = "raise" /\ v.error \in errors

RECURSIVE Flatten(_)
Flatten(msgs) == IF msgs = <<>> THEN <<>> ELSE msgs[1] \o Flatten(Tail(msgs))

IsSuffix(a, b) == Len(a) <= Len(b) /\ SubSeq(b, Len(b) - Len(a) + 1, Len(b)) = a

\* last is a call that went through Session.get_response
ReadDone ==
    \/ last.op = "Session.get_response"
    \/ last.op = "TL1.execute" /\ last.wrote > 0

\* C1: execute on a client with no active session fails with ConnectionError
\* 'Session is not connected', in no other way, and writes nothing.
C1_ExecuteWithoutSession ==
    (last.op = "TL1.execute" /\ ~last.active) =>
        /\ last.value.kind = "raise"
        /\ last.value.error = "ConnectionError"
        /\ last.value.msg = "Session is not connected"
        /\ last.wrote = 0

\* C2: no TL1.close() (or the __exit__ that calls it) raises; the call that
\* tears the session down returns True, every later call returns False.
C2_CloseIdempotent ==
    /\ last.op \in {"TL1.close", "TL1.__exit__"} => last.value.kind # "raise"
    /\ last.op = "TL1.close" =>
          /\ last.value.kind = "bool"
          /\ last.value.val = last.active

\* C3: with two replies queued before the first of two executes, the first
\* execute returns exactly the first reply and the second exactly the second.
C3_RepliesInOrder ==
    (/\ queued.on
     /\ \A i \in 1..2 : parse_response(replies[i]).kind
                           \in {"Response", "AcknowledgmentMessage"}) =>
        \A i \in 1..Len(queued.values) : queued.values[i] = parse_response(replies[i])

\* C4: a Response or AcknowledgmentMessage that execute(cmd) returns carries
\* cmd.staging.ctag, whatever the far end sent.
C4_CtagEchoed ==
    (/\ last.op = "TL1.execute"
     /\ last.value.kind \in {"Response", "AcknowledgmentMessage"}) =>
        last.value.ctag = last.ctag

\* C5: every get_response call terminates, whatever the far end does.
C5_GetResponseTerminates == (call.pc # "idle") ~> (call.pc = "idle")

C7_ConnectFails ==
    last.op = "Session.connect" =>
        /\ last.value.kind = "raise" => last.value.error \in ConnectionErrors
        /\ (last.sock # NoSock \/ last.args[1] = NoHost \/ last.args[2] = NoPort) =>
              last.value.kind = "raise"
        /\ last.sock # NoSock => session.sock = last.sock /\ closes[last.sock] = 0

\* C8: connect() without arguments on a closed session that has a host and a
\* port stored dials the stored host and port.
C8_ConnectUsesStored ==
    (/\ last.op = "Session.connect"
     /\ last.args = <<NoHost, NoPort>>
     /\ last.sock = NoSock
     /\ session.host # NoHost /\ session.port # NoPort) =>
        last.dial = <<session.host, session.port>>

\* C9: once close or __exit__ has run, the session holds no socket, every
\* socket it ever opened has been closed exactly once, and the call did not
\* raise (also on a session already closed); no socket is closed twice.
C9_SessionCloseIdempotent ==
    /\ \A k \in 1..MaxSockets : closes[k] <= 1
    /\ last.op \in {"Session.close", "Session.__exit__"} =>
          /\ last.value.kind # "raise"
          /\ session.sock = NoSock
          /\ \A k \in 1..nsock : closes[k] = 1

\* a session that had a socket, closed a second time
C9_Witness ==
    /\ last.op \in {"Session.close", "Session.__exit__"}
    /\ last.sock = NoSock
    /\ nsock >= 1

C11_IACDoubled ==
    (/\ last.op = "Session.write"
     /\ IAC \in Chars(arg.buffer)
     /\ session.sock # NoSock) =>
        /\ last.value.kind # "raise"
        /\ sent = EscapeIAC(arg.buffer)

\* C11, amended: Session.write hands the socket exactly the ASCII encoding
\* of the payload; a payload with any character outside 7-bit ASCII, U+00FF
\* included, fails with UnicodeEncodeError before any byte is sent, so that
\* no 0xFF byte ever reaches the socket and none is doubled.
C11_WriteAsciiOnly ==
    last.op = "Session.write" =>
        /\ ~IsAscii(arg.buffer) =>
              /\ last.value = Raise("UnicodeEncodeError")
              /\ last.wrote = 0 /\ sent = <<>>
        /\ (IsAscii(arg.buffer) /\ session.sock # NoSock) =>
              /\ last.value = NoneValue
              /\ last.wrote = 1 /\ sent = arg.buffer
        /\ IAC \notin Chars(sent)

\* a payload with U+00FF handed to write on a connected session
C11_Witness ==
    /\ last.op = "Session.write"
    /\ session.sock # NoSock
    /\ IAC \in Chars(arg.buffer)
    /\ last.value = Raise("UnicodeEncodeError")

\* the text starts with \r\n\n
StartsMessage(text) ==
    Len(text) >= 3 /\ text[1] = CR /\ text[2] = LF /\ text[3] = LF

\* the argument is a message of one of the three shapes, every token of it
\* within its enumeration
WellFormed(a) ==
    \/ a.shape = "ack"
    \/ a.shape = "response" /\ a.gap = 2 /\ a.status \in StatusCode
                            /\ a.terminator \in Terminator
    \/ a.shape = "autonomous" /\ a.code \in AlarmCode /\ a.terminator \in Terminator

\* C12: for every buffer that does not start with \r\n\n, the empty buffer
\* and buffers shorter than three characters included, parse_response
\* returns None and raises nothing.
C12_NoMessage ==
    (last.op = "parse_response" /\ ~StartsMessage(arg.text)) =>
        last.value = NoneValue

\* a buffer of two characters
C12_Witness ==
    /\ last.op = "parse_response"
    /\ arg.text = <<CR, LF>>
    /\ last.value = NoneValue

\* C13: a well-formed buffer of one of the three shapes comes back as the
\* message kind of its shape: an acknowledgment iff its last character is
\* '<', otherwise a Response iff its identifier line starts with 'M', and an
\* AutonomousMessage otherwise.
C13_MessageKind ==
    (last.op = "parse_response" /\ WellFormed(arg)) =>
        /\ last.value.kind =
              CASE arg.shape = "ack" -> "AcknowledgmentMessage"
                [] arg.shape = "response" -> "Response"
                [] arg.shape = "autonomous" -> "AutonomousMessage"
        /\ (last.value.kind = "AcknowledgmentMessage")
              <=> (arg.text[Len(arg.text)] = TerminatorACK)
        /\ last.value.kind = "Response" => last.value.type = "M"
        /\ last.value.kind = "AutonomousMessage" => last.value.code[1] # "M"

\* an autonomous message, parsed
C13_Witness ==
    /\ last.op = "parse_response"
    /\ WellFormed(arg) /\ arg.shape = "autonomous"
    /\ last.value.kind = "AutonomousMessage"

C15_OneSpace ==
    /\ (/\ last.op = "parse_response" /\ arg.shape = "response"
        /\ arg.gap = 1 /\ arg.terminator \in Terminator) =>
          /\ last.value.kind = "Response"
          /\ last.value.type = "M"
          /\ last.value.ctag = arg.ctag
          /\ last.value.status = arg.status
    /\ (/\ last.op = "parse_response" /\ arg.shape = "autonomous"
        /\ arg.terminator \in Terminator) =>
          /\ last.value.kind = "AutonomousMessage"
          /\ last.value.code = arg.code
          /\ last.value.atag = arg.atag
          /\ last.value.clause = arg.clause

\* C15, amended: the identifier line 'M', two spaces, CTAG, a space, STATUS
\* gives a Response with type 'M', that ctag and that status, and with one
\* space after 'M' parse_response raises ValueError; the line CODE, a space,
\* ATAG, a space, CLAUSE... gives an autonomous identifier with that code,
\* that atag and the clause tokens.
C15_Identifier ==
    /\ (/\ last.op = "parse_response" /\ arg.shape = "response"
        /\ arg.terminator \in Terminator) =>
          /\ arg.gap = 2 =>
                /\ last.value.kind = "Response"
                /\ last.value.type = "M"
                /\ last.value.ctag = arg.ctag
                /\ last.value.status = arg.status
          /\ arg.gap = 1 => last.value = Raise("ValueError")
    /\ (/\ last.op = "parse_response" /\ arg.shape = "autonomous"
        /\ arg.terminator \in Terminator) =>
          /\ last.value.kind = "AutonomousMessage"
          /\ last.value.code = arg.code
          /\ last.value.atag = arg.atag
          /\ last.value.clause = arg.clause

\* a response with two spaces after 'M', parsed
C15_Witness ==
    /\ last.op = "parse_response"
    /\ arg.shape = "response" /\ arg.gap = 2
    /\ last.value.kind = "Response"
    /\ last.value.ctag = <<"C", "T", "A", "G">>

\* C16: every message parse_response returns has a terminator of
\* Terminator, every Response a status of StatusCode and every
\* AutonomousMessage an alarm code of AlarmCode.
C16_ClosedEnumerations ==
    last.op = "parse_response" =>
        /\ last.value.kind \in {"AcknowledgmentMessage", "Response", "AutonomousMessage"}
              => last.value.terminator \in Terminator
        /\ last.value.kind = "Response" => last.value.status \in StatusCode
        /\ last.value.kind = "AutonomousMessage" => last.value.code \in AlarmCode

\* the entries of a rendered parameter block
Entries(text) == IF text = <<>> THEN <<>> ELSE Split(text, <<",">>, -1)

\* C17: Login(username="admin", password="secret") renders to exactly
\* LOGIN::::CTAG::UN=admin,PWD=secret;
C17_LoginRender ==
    (/\ last.op = "Command.__str__"
     /\ arg.cmd = Login(<<"a", "d", "m", "i", "n">>, <<"s", "e", "c", "r", "e", "t">>)) =>
        last.value.text =
            <<"L", "O", "G", "I", "N", ":", ":", ":", ":", "C", "T", "A", "G", ":", ":",
              "U", "N", "=", "a", "d", "m", "i", "n", ",",
              "P", "W", "D", "=", "s", "e", "c", "r", "e", "t", ";">>

\* C18: a CommandCode with a verb renders VERB-MOD1 when mod2 is empty and
\* VERB alone when mod1 and mod2 are empty, and no other triple of
\* hyphen-free fields with a verb renders to the same string.
C18_CommandCodeRender ==
    (last.op = "CommandCode.__str__" /\ arg.code.verb # <<>>) =>
        LET c == arg.code
        IN  /\ (c.mod1 # <<>> /\ c.mod2 = <<>>) =>
                  last.value.text = c.verb \o <<"-">> \o c.mod1
            /\ (c.mod1 = <<>> /\ c.mod2 = <<>>) => last.value.text = c.verb
            /\ \A other \in CodeArgs :
                  (/\ other.code.verb # <<>>
                   /\ CommandCode_str(other.code) = last.value.text) => other.code = c

\* C19: a parameter block renders as many KEY=VALUE entries as it holds
\* parameters, and a block without parameters renders as the empty string.
C19_EntryPerParameter ==
    last.op = "DataBlock.__str__" =>
        /\ Len(Entries(last.value.text)) = Len(arg.params)
        /\ arg.params = <<>> => last.value.text = <<>>

\* C20: a parameter whose value is empty gets no KEY= entry in the rendered
\* block, as in Login() with its default empty username and password.
C20_EmptyOmitted ==
    /\ last.op = "DataBlock.__str__" =>
          \A i \in 1..Len(Entries(last.value.text)) :
             LET e == Entries(last.value.text)[i] IN e[Len(e)] # "="
    /\ (last.op = "Command.__str__" /\ arg.cmd = Login(<<>>, <<>>)) =>
          "=" \notin Chars(last.value.text)

\* the wire keys of the parameters of a block are pairwise different
DistinctKeys(params) ==
    \A i, j \in 1..Len(params) : params[i].key = params[j].key => i = j

\* C21: a parameter block renders its KEY=VALUE entries in the order the
\* parameters were supplied, the same in every render of every run.
C21_SuppliedOrder ==
    (last.op = "DataBlock.__str__" /\ DistinctKeys(arg.params)) =>
        last.value.text = DataBlock_str(arg.params)

\* four groups of one to three decimal digits, each at most 255, joined by "."
DottedQuad(t) ==
    LET groups == Split(t, <<".">>, -1)
    IN  /\ Len(groups) = 4
        /\ \A i \in 1..4 : /\ groups[i] # <<>>
                           /\ Len(groups[i]) <= 3
                           /\ AllDigits(groups[i])
                           /\ Number(groups[i]) <= 255

\* C22: whatever was constructed and assigned, the value an IPv4Address
\* holds is a text that is a valid dotted-quad address.
C22_StoredAddressValid ==
    obj.class = "IPv4Address" => (obj.value.kind = "str" /\ DottedQuad(obj.value.text))

\* C23: String(a) == b, String(a) < b, String(a) <= b, String(a) > b and
\* String(a) >= b each give what the same comparison of a with b gives.
C23_ComparePassThrough ==
    last.op = "String.compare" =>
        last.value = BoolValue(str_compare(arg.op, arg.self, arg.value))

\* the lines of the body of a table argument
BodyLines == Split(arg.body, <<CR, LF>>, -1)

\* C24: for a table body declaring records=R under a header row of N
\* columns the parser fails or returns exactly R rows, each with the N cells
\* of its data line bound to the header names in order; fewer than R data
\* lines, or a data line whose number of cells is not N, make it fail.
C24_RowsCompleteOrFail ==
    (last.op = "Fiberhome.parse_response" /\ arg.shape = "table") =>
        \/ last.value.kind = "raise"
        \/ LET table == last.value.result
           IN  /\ Len(table.rows) = arg.records
               /\ arg.records <= Len(arg.rows)
               /\ \A i \in 1..arg.records :
                     LET cells == Split(arg.rows[i], <<TAB>>, -1)
                     IN  /\ Len(cells) = Len(table.columns)
                         /\ table.rows[i].fields = Zip(table.columns, cells)

\* C25 as stated: of the lines after the metadata and the separator the
\* first is the title, the second the column header row, the third a rule
\* that is discarded, and the fourth the first data row.
C25_TitleHeaderRule ==
    (/\ last.op = "Fiberhome.parse_response"
     /\ arg.shape = "table"
     /\ last.value.kind = "Response") =>
        LET table == last.value.result
        IN  /\ last.value.res_type = "LIST"
            /\ table.title = BodyLines[5]
            /\ table.columns = Split(BodyLines[6], <<TAB>>, -1)
            /\ table.records >= 1 =>
                  table.rows[1].fields =
                      Dict(Zip(table.columns, Split(BodyLines[8], <<TAB>>, -1)))

\* C25: of the lines after the metadata and the separator the first is the
\* title, the second is discarded (the rule), the third is the column
\* header row, and the fourth is the first data row.
C25_TitleRuleHeader ==
    (/\ last.op = "Fiberhome.parse_response"
     /\ arg.shape = "table"
     /\ last.value.kind = "Response") =>
        LET table == last.value.result
        IN  /\ last.value.res_type = "LIST"
            /\ table.title = BodyLines[5]
            /\ table.columns = Split(BodyLines[7], <<TAB>>, -1)
            /\ table.records >= 1 =>
                  table.rows[1].fields =
                      Dict(Zip(table.columns, Split(BodyLines[8], <<TAB>>, -1)))

\* a table with a data row has been parsed
C25_Witness ==
    /\ last.op = "Fiberhome.parse_response"
    /\ arg.shape = "table"
    /\ last.value.kind = "Response"
    /\ last.value.result.records >= 1
    /\ last.value.result.columns = Split(TableHeader, <<TAB>>, -1)
    /\ last.value.result.rows[1].fields = <<<<<<"A">>, <<"1">>>>, <<<<"B">>, <<"2">>>>>>

\* C26: a response whose body has no table marker is built, with one record
\* holding the KEY=VALUE pairs of the body; the empty body gives a record
\* without fields.
C26_FlatBodyParsed ==
    (last.op = "Fiberhome.parse_response" /\ arg.shape = "flat") =>
        /\ last.value.kind = "Response"
        /\ last.value.res_type = "DEFAULT"
        /\ last.value.result.kind = "ImmutableRecord"
        /\ last.value.result.fields =
              Dict([i \in 1..Len(arg.pairs) |-> Split(arg.pairs[i], <<"=">>, -1)])

\* C27: when execute fails because no response came within the window, the
\* command went to the socket once and nothing was sent after it, the error
\* reaches the caller, and the client is as it was: connected, holding the
\* socket the command was written to.
C27_TimeoutLeavesClientConnected ==
    [][(/\ call.caller = "execute"
        /\ last'.op = "TL1.execute"
        /\ IsRaise(last'.value, {"EOFError"})) =>
           /\ last'.wrote = 1
           /\ sent' = sent
           /\ \E cmd \in Commands :
                 /\ cmd.staging.ctag = call.ctag
                 /\ sent = EscapeIAC(Command_str(cmd))
           /\ call'.pc = "idle"
           /\ tl1' = tl1 /\ tl1.connected /\ tl1.session
           /\ session' = session
           /\ session.sock = call.sock /\ session.sock # NoSock
           /\ closes[session.sock] = 0]_vars

\* an execute has failed for want of a response
C27_Witness ==
    /\ last.op = "TL1.execute"
    /\ IsRaise(last.value, {"EOFError"})
    /\ last.wrote = 1
    /\ last.elapsed >= last.timeout
    /\ tl1.connected /\ session.sock = last.sock
    /\ call.pc = "idle"

\* C28: an execute whose reply never arrives fails once the timeout given to
\* the constructor of the client has passed.
C28_ConfiguredTimeout ==
    (/\ owner = "tl1"
     /\ last.op = "TL1.execute"
     /\ IsRaise(last.value, {"EOFError"})) =>
        /\ last.elapsed >= session.timeout
        /\ last.elapsed <= session.timeout + MaxOvershoot

\* what a render of the command from scratch gives in the same process
FreshRender(cmd) ==
    FiberhomeCommand_str(cmd, ParamBlock_slots_of(cmd.access, cmd.hashorder.access),
                              ParamBlock_slots_of(cmd.body, cmd.hashorder.body))

\* C29: whatever was changed before it, str(command) is the string that a
\* render from scratch of the command's code, staging, access and body gives.
C29_RenderIsFresh ==
    last.op = "FiberhomeCommand.__str__" =>
        last.value.text = FreshRender(last.args[1])

\* the set of the entries of a rendered parameter block
EntrySet(text) == {Entries(text)[i] : i \in 1..Len(Entries(text))}

\* C30: str(AddONU(olt_id, pon_id, onu_id, model, **optionals)) carries OLTID
\* and PONID in its AID segment, and ONUID, ONUTYPE and every optional
\* parameter supplied in its payload.
C30_AddONUKeepsParts ==
    (last.op = "AddONU.__str__" /\ last.value.kind = "str") =>
        LET segments == Split(last.value.text, <<":">>, -1)
            given == AddONU_options(arg.optionals)
        IN  /\ Len(segments) = 6
            /\ EntrySet(segments[3]) =
                   {<<"O", "L", "T", "I", "D", "=">> \o arg.olt_id,
                    <<"P", "O", "N", "I", "D", "=">> \o arg.pon_id}
            /\ EntrySet(DropLast(segments[6])) =
                   {<<"O", "N", "U", "I", "D", "=">> \o arg.onu_id,
                    <<"O", "N", "U", "T", "Y", "P", "E", "=">> \o arg.model}
                   \cup {given[i].key \o <<"=">> \o given[i].value : i \in 1..Len(given)}

====
